---- MODULE Spec2Model ----
(***************************************************************************)
(* State-machine model of telegram-bot.py: the TelegramBot handlers        *)
(* (start, handle_contact, handle_message, handle_photo, handle_document,  *)
(* web_search), the PDF text extraction and the MongoDB collections they   *)
(* write.  Texts are TLA+ strings, so slicing and lengths are computed on  *)
(* the real characters.  Every await of a handler is one step: its outcome *)
(* (a value or a raised exception) is chosen by the environment.           *)
(***************************************************************************)
EXTENDS Integers, Sequences, FiniteSets, TLC

VARIABLES
    users,              \* db.users: the stored profile documents, in insertion order
    chat_history,       \* db.chat_history: appended records
    image_analysis,     \* db.image_analysis: appended records
    document_analysis,  \* db.document_analysis: appended records
    outbox,             \* messages the transport delivered, in sending order
    pc,                 \* position of the running handler, "idle" between updates
    run,                \* the update being handled and what its handler did so far
    local,              \* the local variables of the running handler
    now,                \* datetime.utcnow(), a logical clock
    prev                \* what the handler of the update before did (kept by SpecRepeat only)

vars ==
    <<users, chat_history, image_analysis, document_analysis, outbox, pc, run, local, now, prev>>

-----------------------------------------------------------------------------
(* Bounds of the model *)

MaxEvents == 2          \* updates delivered in one behaviour
MaxPages == 1           \* pages of a PDF document a handler downloads
MaxExtractPages == 3    \* pages of a PDF document given to the extraction alone

-----------------------------------------------------------------------------
(* Values *)

None == "<None>"        \* Python's None
Missing == "<missing>"  \* a field a stored document does not have

TelegramLimit == 4096

RECURSIVE Repeat(_, _)
Repeat(s, n) ==
    IF n = 0 THEN ""
    ELSE IF n % 2 = 1 THEN s \o Repeat(s, n - 1)
    ELSE LET h == Repeat(s, n \div 2) IN h \o h

ShortText == "Hello, Ann."
LongText == Repeat("x", TelegramLimit) \o "tail"

StartPrompt == "Hello! Please share your contact to complete registration."
ContactThanks == "Thanks for sharing your contact!"
TextFallback == "I couldn't process that."
ImageFallback == "Could not analyze the image."
ImageError == "There was an error analyzing the image. Please try again later."
SummaryFallback == "Could not summarize the document."
NoTextFallback == "No readable text found in the PDF."
UnsupportedFallback == "Unsupported document type."
UsageMessage == "Please provide a search query after /websearch"
SearchFallback == "No search results found."

Chats == {123, 456}
Senders == {[first_name |-> "Ann", username |-> "ann"],
            [first_name |-> "Bob", username |-> None]}
Phones == {"+100", "+200"}
Bodies == {"Hello"}
ArgLists == {<<>>, <<"tla">>, <<"model", "checking">>}
FilePaths == [c \in Chats |-> IF c = 123 THEN "files/123" ELSE "files/456"]

PdfSuffix == <<".", "p", "d", "f">>
FileNames == {<<"a", ".", "P", "d", "F">>,
              <<"n", ".", "t", "x", "t">>,
              <<"p", "d", "f">>}

\* What generate_content hands back: it raises, returns no response, or
\* returns a response whose .text is the given string.
InferenceOutcomes ==
    {[kind |-> "raise"], [kind |-> "none"]}
        \cup {[kind |-> "response", text |-> t] : t \in {"", ShortText, LongText}}

\* What page.extract_text() hands back for one page.
PageOutcomes == {"<raise>", None, "a", "b"}

RECURSIVE SeqsUpTo(_, _)
SeqsUpTo(S, n) ==
    IF n = 0 THEN {<<>>}
    ELSE LET shorter == SeqsUpTo(S, n - 1)
         IN shorter \cup {Append(s, x) : s \in {t \in shorter : Len(t) = n - 1}, x \in S}

\* The downloaded bytes of a PDF: PdfReader either fails on them or
\* yields their pages.
PdfsUpTo(n) ==
    {[opens |-> FALSE, pages |-> <<>>]}
        \cup {[opens |-> TRUE, pages |-> ps] : ps \in SeqsUpTo(PageOutcomes, n)}

Pdfs == PdfsUpTo(MaxPages)

-----------------------------------------------------------------------------
(* Pure helpers *)

UpperCase == <<"A", "B", "C", "D", "E", "F", "G", "H", "I", "J", "K", "L", "M",
               "N", "O", "P", "Q", "R", "S", "T", "U", "V", "W", "X", "Y", "Z">>
LowerCase == <<"a", "b", "c", "d", "e", "f", "g", "h", "i", "j", "k", "l", "m",
               "n", "o", "p", "q", "r", "s", "t", "u", "v", "w", "x", "y", "z">>

\* str.lower() on a file name (a sequence of characters)
Lower(name) ==
    [i \in 1..Len(name) |->
        IF \E k \in 1..26 : UpperCase[k] = name[i]
        THEN LowerCase[CHOOSE k \in 1..26 : UpperCase[k] = name[i]]
        ELSE name[i]]

\* str.endswith(suffix)
EndsWith(name, suffix) ==
    /\ Len(name) >= Len(suffix)
    /\ SubSeq(name, Len(name) - Len(suffix) + 1, Len(name)) = suffix

\* Variant: the suffix tested lacks its dot
IsPdfNameNoDot(name) == EndsWith(Lower(name), <<"p", "d", "f">>)

\* file_name.lower().endswith('.pdf')
IsPdfName(name) == EndsWith(Lower(name), PdfSuffix)

\* Variant: the slice keeps one character too many
TruncateOneMore(text) ==
    IF Len(text) <= TelegramLimit + 1 THEN text ELSE SubSeq(text, 1, TelegramLimit + 1)

\* text[:4096]
Truncate(text) ==
    IF Len(text) <= TelegramLimit THEN text ELSE SubSeq(text, 1, TelegramLimit)

\* Variant: the arguments are joined without a separator
RECURSIVE JoinArgsNoSpace(_)
JoinArgsNoSpace(args) ==
    IF Len(args) = 0 THEN "" ELSE args[1] \o JoinArgsNoSpace(Tail(args))

\* " ".join(context.args)
RECURSIVE JoinArgs(_)
JoinArgs(args) ==
    IF Len(args) = 0 THEN ""
    ELSE IF Len(args) = 1 THEN args[1]
    ELSE args[1] \o " " \o JoinArgs(Tail(args))

\* f"Search the web for: {query} and summarize the top results."
SearchPrompt(query) ==
    "Search the web for: " \o query \o " and summarize the top results."

\* response.text if response else fallback   (the outcome did not raise)
TextOrFallback(outcome, fallback) ==
    IF outcome.kind = "response" THEN outcome.text ELSE fallback

\* The loop of extract_text_from_pdf from page number i on, inside the try:
\* an exception of a page leaves the loop with the text gathered so far.
RECURSIVE ExtractFrom(_, _, _)
ExtractFrom(pages, i, text) ==
    IF i > Len(pages) THEN text
    ELSE IF pages[i] = "<raise>" THEN text
    ELSE ExtractFrom(pages, i + 1, text \o (IF pages[i] = None THEN "" ELSE pages[i]))

\* Variant: a document that cannot be opened yields the error message as text
extract_text_or_error(pdf) ==
    IF pdf.opens THEN ExtractFrom(pdf.pages, 1, "") ELSE "Error extracting text from PDF"

\* The whole method: a PdfReader that fails leaves the text empty.
extract_text_from_pdf(pdf) ==
    IF pdf.opens THEN ExtractFrom(pdf.pages, 1, "") ELSE ""

-----------------------------------------------------------------------------
(* Updates delivered by the transport *)

Commands ==
    {[kind |-> "command", name |-> n, args |-> a, chat_id |-> c, user |-> u] :
        n \in {"start", "websearch", "help"}, a \in ArgLists, c \in Chats, u \in Senders}
Contacts ==
    {[kind |-> "contact", phone_number |-> p, chat_id |-> c, user |-> u] :
        p \in Phones, c \in Chats, u \in Senders}
TextMessages ==
    {[kind |-> "text", text |-> b, chat_id |-> c, user |-> u] :
        b \in Bodies, c \in Chats, u \in Senders}
PhotoMessages ==
    {[kind |-> "photo", chat_id |-> c, user |-> u] : c \in Chats, u \in Senders}
DocumentMessages ==
    {[kind |-> "document", file_name |-> f, chat_id |-> c, user |-> u] :
        f \in FileNames, c \in Chats, u \in Senders}

\* The updates of the model.  Chat 123 sends every kind of update, and its
\* /start comes from either sender (an account that was renamed); chat 456
\* sends /start, a contact and a text.  /start and /help carry no arguments.
Updates ==
    {e \in Commands :
        /\ e.name # "websearch" => e.args = <<>>
        /\ \/ e.chat_id = 123 /\ (e.user.first_name = "Ann" \/ e.name = "start")
           \/ e.chat_id = 456 /\ e.user.first_name = "Bob" /\ e.name = "start"}
      \cup
    {e \in Contacts \cup TextMessages \cup PhotoMessages \cup DocumentMessages :
        \/ e.chat_id = 123 /\ e.user.first_name = "Ann"
        \/ e.chat_id = 456 /\ e.user.first_name = "Bob" /\ e.kind \in {"contact", "text"}}

NoUpdate == [kind |-> "none"]

\* The add_handler calls of main(), in their order
Registrations ==
    <<[filter |-> "command:start", callback |-> "start"],
      [filter |-> "CONTACT", callback |-> "handle_contact"],
      [filter |-> "TEXT & ~COMMAND", callback |-> "handle_message"],
      [filter |-> "PHOTO", callback |-> "handle_photo"],
      [filter |-> "Document.ALL", callback |-> "handle_document"],
      [filter |-> "command:websearch", callback |-> "web_search"]>>

\* A command is a text message that starts with a bot command.
HasText(ev) == ev.kind \in {"text", "command"}

\* Variant: the text filter without its "& ~filters.COMMAND"
AcceptsAnyText(filter, ev) ==
    CASE filter = "command:start" -> ev.kind = "command" /\ ev.name = "start"
      [] filter = "command:websearch" -> ev.kind = "command" /\ ev.name = "websearch"
      [] filter = "CONTACT" -> ev.kind = "contact"
      [] filter = "TEXT & ~COMMAND" -> HasText(ev)
      [] filter = "PHOTO" -> ev.kind = "photo"
      [] filter = "Document.ALL" -> ev.kind = "document"

\* The handler's check_update: does the update pass the filter?
Accepts(filter, ev) ==
    CASE filter = "command:start" -> ev.kind = "command" /\ ev.name = "start"
      [] filter = "command:websearch" -> ev.kind = "command" /\ ev.name = "websearch"
      [] filter = "CONTACT" -> ev.kind = "contact"
      [] filter = "TEXT & ~COMMAND" -> HasText(ev) /\ ev.kind # "command"
      [] filter = "PHOTO" -> ev.kind = "photo"
      [] filter = "Document.ALL" -> ev.kind = "document"

\* The handler the registrations of main() select for an update: the first
\* one whose filter accepts it; "idle" when no registered handler does.
Route(ev) ==
    LET hits == {i \in 1..Len(Registrations) : Accepts(Registrations[i].filter, ev)}
    IN IF hits = {} THEN "idle"
       ELSE Registrations[CHOOSE i \in hits : \A j \in hits : i <= j].callback

-----------------------------------------------------------------------------
(* What the handler of the current update has done *)

NewRun(ev) ==
    [ev |-> ev,
     result |-> IF Route(ev) = "idle" THEN "ignored" ELSE "running",
     faults |-> {},        \* the awaited calls that raised
     typing |-> 0,         \* send_action calls made
     fetched |-> 0,        \* download_as_bytearray calls made
     prompts |-> <<>>,     \* arguments of the generate_content calls made
     records |-> <<>>,     \* documents inserted, with their collection
     sent |-> <<>>]        \* texts passed to reply_text

NoRun == NewRun(NoUpdate)

\* The locals before their assignment
NoResponse == [kind |-> "unset"]
NoPdf == [opens |-> FALSE, pages |-> <<>>, unset |-> TRUE]
NoLocals ==
    [file_path |-> None, file_bytes |-> NoPdf, text |-> None, response |-> NoResponse,
     analysis |-> None]

\* No update was handled before
NoPrev == [run |-> NoRun, local |-> NoLocals]

WithFault(r, call) == [r EXCEPT !.faults = @ \cup {call}]
WithTyping(r) == [r EXCEPT !.typing = @ + 1]
WithFetch(r) == [r EXCEPT !.fetched = @ + 1]
WithPrompt(r, prompt) == [r EXCEPT !.prompts = Append(@, prompt)]
WithRecord(r, coll, doc) == [r EXCEPT !.records = Append(@, [coll |-> coll, doc |-> doc])]
WithSent(r, text) == [r EXCEPT !.sent = Append(@, text)]
Ended(r, result) == [r EXCEPT !.result = result]

-----------------------------------------------------------------------------
(* The collections *)

NewProfile(chat_id) ==
    [chat_id |-> chat_id, first_name |-> Missing, username |-> Missing, phone_number |-> Missing]

\* Variant: the document is replaced by the given fields
ReplaceFields(doc, user_data) ==
    [f \in DOMAIN doc |-> IF f \in DOMAIN user_data THEN user_data[f] ELSE Missing]

\* {"$set": user_data} on one document
SetFields(doc, user_data) ==
    [f \in DOMAIN doc |-> IF f \in DOMAIN user_data THEN user_data[f] ELSE doc[f]]

Matching(coll, chat_id) == {i \in 1..Len(coll) : coll[i].chat_id = chat_id}

\* Variant: an insert instead of an upsert
insert_user(coll, user_data) ==
    Append(coll, SetFields(NewProfile(user_data.chat_id), user_data))

\* users.update_one({"chat_id": ...}, {"$set": user_data}, upsert=True): the
\* first matching document is updated; without a match one is inserted.
save_user(coll, user_data) ==
    LET hits == Matching(coll, user_data.chat_id)
    IN IF hits = {}
       THEN Append(coll, SetFields(NewProfile(user_data.chat_id), user_data))
       ELSE LET i == CHOOSE k \in hits : \A j \in hits : k <= j
            IN [coll EXCEPT ![i] = SetFields(@, user_data)]

\* Variant: the response is cut to the reply length before it is stored
ChatRecordTruncated(chat_id, message, response_text, t) ==
    [chat_id |-> chat_id, user_message |-> message, bot_response |-> Truncate(response_text),
     timestamp |-> t]

\* chat_history.insert_one({**chat_data, "timestamp": datetime.utcnow()})
ChatRecord(chat_id, message, response_text, t) ==
    [chat_id |-> chat_id, user_message |-> message, bot_response |-> response_text,
     timestamp |-> t]

\* the document handle_photo inserts
ImageRecord(chat_id, file_path, analysis, t) ==
    [chat_id |-> chat_id, image_url |-> file_path, description |-> analysis, timestamp |-> t]

\* the document handle_document inserts
DocumentRecord(chat_id, file_path, analysis, t) ==
    [chat_id |-> chat_id, document_url |-> file_path, description |-> analysis,
     timestamp |-> t]

\* A delivered reply: reply_text answers the message of the update handled.
Message(chat_id, text, keyboard, update) ==
    [chat_id |-> chat_id, text |-> text, keyboard |-> keyboard, update |-> update]

-----------------------------------------------------------------------------
(* Initial state and delivery *)

Init ==
    /\ users = <<>>
    /\ chat_history = <<>>
    /\ image_analysis = <<>>
    /\ document_analysis = <<>>
    /\ outbox = <<>>
    /\ pc = "idle"
    /\ run = NoRun
    /\ local = NoLocals
    /\ now = 0
    /\ prev = NoPrev

store == <<users, chat_history, image_analysis, document_analysis>>

\* Application.run_polling hands the next update to the matching handler once
\* the handler of the previous update has ended.
Deliver(ev) ==
    /\ pc = "idle"
    /\ now < MaxEvents
    /\ now' = now + 1
    /\ run' = NewRun(ev)
    /\ pc' = Route(ev)
    /\ local' = NoLocals
    /\ UNCHANGED <<store, outbox, prev>>

\* Variant: the reply overtakes the messages sent before it
LastReplyOvertakes(text, keyboard, ok) ==
    /\ run' = Ended(IF ok THEN WithSent(run, text) ELSE WithFault(WithSent(run, text), "reply"),
                    IF ok THEN "returned" ELSE "raised")
    /\ outbox' = IF ok THEN <<Message(run.ev.chat_id, text, keyboard, now)>> \o outbox
                       ELSE outbox
    /\ pc' = "idle"

\* await update.message.reply_text(text) as the last statement of a handler:
\* the handler returns, or the exception of the call leaves the handler.
LastReply(text, keyboard, ok) ==
    /\ run' = Ended(IF ok THEN WithSent(run, text) ELSE WithFault(WithSent(run, text), "reply"),
                    IF ok THEN "returned" ELSE "raised")
    /\ outbox' = IF ok THEN Append(outbox, Message(run.ev.chat_id, text, keyboard, now))
                       ELSE outbox
    /\ pc' = "idle"

\* Variant: the exception that leaves a handler ends the polling loop
PropagateAndStop(r, call) ==
    /\ run' = Ended(WithFault(r, call), "raised")
    /\ pc' = "stopped"

\* An awaited call raised outside any try: the exception leaves the handler,
\* is logged by the application, and the update is done.
Propagate(r, call) ==
    /\ run' = Ended(WithFault(r, call), "raised")
    /\ pc' = "idle"

-----------------------------------------------------------------------------
(* start and handle_contact *)

\* start: the profile is saved before the reply is awaited.
Start(ok) ==
    /\ pc = "start"
    /\ users' = save_user(users, [chat_id |-> run.ev.chat_id,
                                  first_name |-> run.ev.user.first_name,
                                  username |-> run.ev.user.username])
    /\ LastReply(StartPrompt, TRUE, ok)
    /\ UNCHANGED <<chat_history, image_analysis, document_analysis, local, now, prev>>

HandleContact(ok) ==
    /\ pc = "handle_contact"
    /\ users' = save_user(users, [chat_id |-> run.ev.chat_id,
                                  phone_number |-> run.ev.phone_number])
    /\ LastReply(ContactThanks, FALSE, ok)
    /\ UNCHANGED <<chat_history, image_analysis, document_analysis, local, now, prev>>

-----------------------------------------------------------------------------
(* handle_message *)

\* Variant: the prompt carries the last message of the chat history
MessageGenerateWithMemory(outcome) ==
    /\ pc = "hm_generate"
    /\ LET prompt == IF chat_history = <<>> THEN run.ev.text
                     ELSE chat_history[Len(chat_history)].user_message \o " " \o run.ev.text
       IN IF outcome.kind = "raise"
          THEN /\ Propagate(WithPrompt(run, prompt), "inference")
               /\ UNCHANGED <<chat_history, local>>
          ELSE LET response_text == TextOrFallback(outcome, TextFallback)
                   record == ChatRecord(run.ev.chat_id, run.ev.text, response_text, now)
               IN /\ chat_history' = Append(chat_history, record)
                  /\ run' = WithRecord(WithPrompt(run, prompt), "chat_history", record)
                  /\ local' = [local EXCEPT !.response = outcome, !.analysis = response_text]
                  /\ pc' = "hm_reply"
    /\ UNCHANGED <<users, image_analysis, document_analysis, outbox, now, prev>>

\* Variant: the record is saved, with the fallback, before the inference call
MessageTypingSavesFirst(ok) ==
    /\ pc = "handle_message"
    /\ IF ok
       THEN LET record == ChatRecord(run.ev.chat_id, run.ev.text, TextFallback, now)
            IN /\ chat_history' = Append(chat_history, record)
               /\ run' = WithRecord(WithTyping(run), "chat_history", record)
               /\ pc' = "hm_generate"
       ELSE Propagate(WithTyping(run), "typing") /\ UNCHANGED chat_history
    /\ UNCHANGED <<users, image_analysis, document_analysis, outbox, local, now, prev>>

\* await update.message.chat.send_action("typing")
MessageTyping(ok) ==
    /\ pc = "handle_message"
    /\ IF ok
       THEN run' = WithTyping(run) /\ pc' = "hm_generate"
       ELSE Propagate(WithTyping(run), "typing")
    /\ UNCHANGED <<store, outbox, local, now, prev>>

\* The generate_content call returns or raises; with a result the record is
\* saved before the reply is awaited.
MessageGenerate(outcome) ==
    /\ pc = "hm_generate"
    /\ IF outcome.kind = "raise"
       THEN /\ Propagate(WithPrompt(run, run.ev.text), "inference")
            /\ UNCHANGED <<chat_history, local>>
       ELSE LET response_text == TextOrFallback(outcome, TextFallback)
                record == ChatRecord(run.ev.chat_id, run.ev.text, response_text, now)
            IN /\ chat_history' = Append(chat_history, record)
               /\ run' = WithRecord(WithPrompt(run, run.ev.text), "chat_history", record)
               /\ local' = [local EXCEPT !.response = outcome, !.analysis = response_text]
               /\ pc' = "hm_reply"
    /\ UNCHANGED <<users, image_analysis, document_analysis, outbox, now, prev>>

MessageReply(ok) ==
    /\ pc = "hm_reply"
    /\ LastReply(Truncate(local.analysis), FALSE, ok)
    /\ UNCHANGED <<store, local, now, prev>>

-----------------------------------------------------------------------------
(* handle_photo *)

\* file = await context.bot.get_file(photo.file_id), before the try
PhotoGetFile(ok) ==
    /\ pc = "handle_photo"
    /\ IF ok
       THEN /\ local' = [local EXCEPT !.file_path = FilePaths[run.ev.chat_id]]
            /\ pc' = "hp_typing"
            /\ UNCHANGED run
       ELSE Propagate(run, "get_file") /\ UNCHANGED local
    /\ UNCHANGED <<store, outbox, now, prev>>

PhotoTyping(ok) ==
    /\ pc = "hp_typing"
    /\ IF ok
       THEN run' = WithTyping(run) /\ pc' = "hp_download"
       ELSE Propagate(WithTyping(run), "typing")
    /\ UNCHANGED <<store, outbox, local, now, prev>>

\* image_bytes = await file.download_as_bytearray(), inside the try
PhotoDownload(ok) ==
    /\ pc = "hp_download"
    /\ IF ok
       THEN run' = WithFetch(run) /\ pc' = "hp_generate"
       ELSE run' = WithFault(WithFetch(run), "download") /\ pc' = "hp_except"
    /\ UNCHANGED <<store, outbox, local, now, prev>>

PhotoGenerate(outcome) ==
    /\ pc = "hp_generate"
    /\ IF outcome.kind = "raise"
       THEN /\ run' = WithFault(WithPrompt(run, "<image>"), "inference")
            /\ pc' = "hp_except"
            /\ UNCHANGED <<image_analysis, local>>
       ELSE LET analysis == TextOrFallback(outcome, ImageFallback)
                record == ImageRecord(run.ev.chat_id, local.file_path, analysis, now)
            IN /\ image_analysis' = Append(image_analysis, record)
               /\ run' = WithRecord(WithPrompt(run, "<image>"), "image_analysis", record)
               /\ local' = [local EXCEPT !.response = outcome, !.analysis = analysis]
               /\ pc' = "hp_reply"
    /\ UNCHANGED <<users, chat_history, document_analysis, outbox, now, prev>>

\* Variant: the reply is awaited after the try, its exception leaves the handler
PhotoReplyOutsideTry(ok) ==
    /\ pc = "hp_reply"
    /\ LastReply(Truncate(local.analysis), FALSE, ok)
    /\ UNCHANGED <<store, local, now, prev>>

\* await update.message.reply_text(analysis[:4096]), still inside the try
PhotoReply(ok) ==
    /\ pc = "hp_reply"
    /\ IF ok
       THEN LastReply(Truncate(local.analysis), FALSE, TRUE)
       ELSE /\ run' = WithFault(WithSent(run, Truncate(local.analysis)), "reply")
            /\ pc' = "hp_except"
            /\ UNCHANGED outbox
    /\ UNCHANGED <<store, local, now, prev>>

\* except Exception: the error reply
PhotoExcept(ok) ==
    /\ pc = "hp_except"
    /\ LastReply(ImageError, FALSE, ok)
    /\ UNCHANGED <<store, local, now, prev>>

-----------------------------------------------------------------------------
(* handle_document *)

\* file = await context.bot.get_file(document.file_id)
DocumentGetFile(ok) ==
    /\ pc = "handle_document"
    /\ IF ok
       THEN /\ local' = [local EXCEPT !.file_path = FilePaths[run.ev.chat_id]]
            /\ pc' = "hd_typing"
            /\ UNCHANGED run
       ELSE Propagate(run, "get_file") /\ UNCHANGED local
    /\ UNCHANGED <<store, outbox, now, prev>>

\* insert_one into document_analysis; the reply is awaited next
DocumentInsert(r, analysis, locals) ==
    LET record == DocumentRecord(run.ev.chat_id, local.file_path, analysis, now)
    IN /\ document_analysis' = Append(document_analysis, record)
       /\ run' = WithRecord(r, "document_analysis", record)
       /\ local' = [locals EXCEPT !.analysis = analysis]
       /\ pc' = "hd_reply"

\* The typing indicator, then the test of the file name: a name that is not
\* a PDF's goes straight to the insert.
DocumentTyping(ok) ==
    /\ pc = "hd_typing"
    /\ IF ~ok
       THEN Propagate(WithTyping(run), "typing") /\ UNCHANGED <<document_analysis, local>>
       ELSE IF IsPdfName(run.ev.file_name)
       THEN /\ run' = WithTyping(run)
            /\ pc' = "hd_download"
            /\ UNCHANGED <<document_analysis, local>>
       ELSE DocumentInsert(WithTyping(run), UnsupportedFallback, local)
    /\ UNCHANGED <<users, chat_history, image_analysis, outbox, now, prev>>

\* file_bytes = await file.download_as_bytearray(), then the extraction; an
\* empty text goes straight to the insert.
DocumentDownload(ok, pdf) ==
    /\ pc = "hd_download"
    /\ IF ~ok
       THEN Propagate(WithFetch(run), "download") /\ UNCHANGED <<document_analysis, local>>
       ELSE LET text == extract_text_from_pdf(pdf)
                locals == [local EXCEPT !.file_bytes = pdf, !.text = text]
            IN IF text # ""
               THEN /\ run' = WithFetch(run)
                    /\ local' = locals
                    /\ pc' = "hd_generate"
                    /\ UNCHANGED document_analysis
               ELSE DocumentInsert(WithFetch(run), NoTextFallback, locals)
    /\ UNCHANGED <<users, chat_history, image_analysis, outbox, now, prev>>

DocumentGenerate(outcome) ==
    /\ pc = "hd_generate"
    /\ IF outcome.kind = "raise"
       THEN /\ Propagate(WithPrompt(run, local.text), "inference")
            /\ UNCHANGED <<document_analysis, local>>
       ELSE DocumentInsert(WithPrompt(run, local.text),
                           TextOrFallback(outcome, SummaryFallback),
                           [local EXCEPT !.response = outcome])
    /\ UNCHANGED <<users, chat_history, image_analysis, outbox, now, prev>>

DocumentReply(ok) ==
    /\ pc = "hd_reply"
    /\ LastReply(Truncate(local.analysis), FALSE, ok)
    /\ UNCHANGED <<store, local, now, prev>>

-----------------------------------------------------------------------------
(* web_search *)

\* Without arguments the usage message is the whole handler; with arguments
\* the typing indicator comes first.
WebSearch(ok) ==
    /\ pc = "web_search"
    /\ IF run.ev.args = <<>>
       THEN LastReply(UsageMessage, FALSE, ok)
       ELSE /\ IF ok
               THEN run' = WithTyping(run) /\ pc' = "ws_generate"
               ELSE Propagate(WithTyping(run), "typing")
            /\ UNCHANGED outbox
    /\ UNCHANGED <<store, local, now, prev>>

WebSearchGenerate(outcome) ==
    /\ pc = "ws_generate"
    /\ LET prompt == SearchPrompt(JoinArgs(run.ev.args))
       IN IF outcome.kind = "raise"
          THEN Propagate(WithPrompt(run, prompt), "inference") /\ UNCHANGED local
          ELSE /\ run' = WithPrompt(run, prompt)
               /\ local' = [local EXCEPT !.response = outcome,
                                         !.analysis = TextOrFallback(outcome, SearchFallback)]
               /\ pc' = "ws_reply"
    /\ UNCHANGED <<store, outbox, now, prev>>

WebSearchReply(ok) ==
    /\ pc = "ws_reply"
    /\ LastReply(Truncate(local.analysis), FALSE, ok)
    /\ UNCHANGED <<store, local, now, prev>>

-----------------------------------------------------------------------------
(* The specification *)

\* A step of the running handler
Handle ==
    \/ \E ok \in BOOLEAN : Start(ok)
    \/ \E ok \in BOOLEAN : HandleContact(ok)
    \/ \E ok \in BOOLEAN : MessageTyping(ok)
    \/ \E outcome \in InferenceOutcomes : MessageGenerate(outcome)
    \/ \E ok \in BOOLEAN : MessageReply(ok)
    \/ \E ok \in BOOLEAN : PhotoGetFile(ok)
    \/ \E ok \in BOOLEAN : PhotoTyping(ok)
    \/ \E ok \in BOOLEAN : PhotoDownload(ok)
    \/ \E outcome \in InferenceOutcomes : PhotoGenerate(outcome)
    \/ \E ok \in BOOLEAN : PhotoReply(ok)
    \/ \E ok \in BOOLEAN : PhotoExcept(ok)
    \/ \E ok \in BOOLEAN : DocumentGetFile(ok)
    \/ \E ok \in BOOLEAN : DocumentTyping(ok)
    \/ \E ok \in BOOLEAN, pdf \in Pdfs : DocumentDownload(ok, pdf)
    \/ \E outcome \in InferenceOutcomes : DocumentGenerate(outcome)
    \/ \E ok \in BOOLEAN : DocumentReply(ok)
    \/ \E ok \in BOOLEAN : WebSearch(ok)
    \/ \E outcome \in InferenceOutcomes : WebSearchGenerate(outcome)
    \/ \E ok \in BOOLEAN : WebSearchReply(ok)

Next ==
    \/ \E ev \in Updates : Deliver(ev)
    \/ Handle

Spec == Init /\ [][Next]_vars

-----------------------------------------------------------------------------
(* The extraction alone: extract_text_from_pdf applied to one document *)

InitExtract ==
    /\ users = <<>>
    /\ chat_history = <<>>
    /\ image_analysis = <<>>
    /\ document_analysis = <<>>
    /\ outbox = <<>>
    /\ pc = "extract"
    /\ run = NoRun
    /\ local \in {[NoLocals EXCEPT !.file_bytes = pdf] : pdf \in PdfsUpTo(MaxExtractPages)}
    /\ now = 0
    /\ prev = NoPrev

Extract ==
    /\ pc = "extract"
    /\ local' = [local EXCEPT !.text = extract_text_from_pdf(local.file_bytes)]
    /\ pc' = "extracted"
    /\ UNCHANGED <<store, outbox, run, now, prev>>

SpecExtract == InitExtract /\ [][Extract]_vars

-----------------------------------------------------------------------------
(* Vocabulary of the properties *)

\* The handler of the current update has ended, by returning or by an
\* exception that left it.
HandlerEnded == pc = "idle" /\ run.result \in {"returned", "raised"}

\* The response or description field of an inserted record
StoredText(rec) ==
    IF rec.coll = "chat_history" THEN rec.doc.bot_response ELSE rec.doc.description

IsPrefix(a, b) == Len(a) <= Len(b) /\ SubSeq(b, 1, Len(a)) = a

\* The fallback string of the path of an update
PathFallback(ev) ==
    CASE ev.kind = "text" -> TextFallback
      [] ev.kind = "photo" -> ImageFallback
      [] ev.kind = "document" -> SummaryFallback
      [] OTHER -> SearchFallback

\* The name ends in .pdf, in any mix of upper and lower case
HasPdfExtension(name) ==
    /\ Len(name) >= 4
    /\ name[Len(name) - 3] = "."
    /\ name[Len(name) - 2] \in {"p", "P"}
    /\ name[Len(name) - 1] \in {"d", "D"}
    /\ name[Len(name)] \in {"f", "F"}

RecordingKinds == {"text", "photo", "document"}

\* The last message the transport delivered went to the chat of the current
\* update and has this text.
LastDelivered(text) ==
    /\ outbox # <<>>
    /\ outbox[Len(outbox)].chat_id = run.ev.chat_id
    /\ outbox[Len(outbox)].text = text

-----------------------------------------------------------------------------
(* C1 *)

\* C1: a text, photo or document update whose handler ended with no failed
\* call other than the inference call has exactly one record in its
\* collection, and when the inference call raised or returned no response
\* the stored text is the fallback string of the path.
C1_OneRecordPerEvent ==
    (/\ HandlerEnded
     /\ run.ev.kind \in RecordingKinds
     /\ run.faults \subseteq {"inference"})
        => /\ Len(run.records) = 1
           /\ (run.prompts # <<>> /\ local.response.kind \in {"unset", "none"})
                => StoredText(run.records[1]) = PathFallback(run.ev)

-----------------------------------------------------------------------------
(* C2 *)

\* C2: when the inference call of handle_message, handle_photo,
\* handle_document or web_search raises (and no other call fails), the
\* handler returns normally and has sent a reply.
C2_InferenceFailureCaught ==
    (/\ HandlerEnded
     /\ run.faults = {"inference"})
        => /\ run.result = "returned"
           /\ run.sent # <<>>

-----------------------------------------------------------------------------
(* C3 *)

\* C3: every text passed to reply_text and every delivered message has at
\* most 4096 characters, and the reply composed from an inference output is
\* a prefix of that output.
C3_ReplyBounded ==
    /\ \A i \in 1..Len(outbox) : Len(outbox[i].text) <= 4096
    /\ \A i \in 1..Len(run.sent) : Len(run.sent[i]) <= 4096
    /\ (local.response.kind = "response" /\ run.sent # <<>>)
          => IsPrefix(run.sent[1], local.response.text)

\* A reply of exactly 4096 characters, cut from a longer inference output,
\* was delivered.
C3_Witness ==
    /\ HandlerEnded
    /\ local.response.kind = "response"
    /\ Len(local.response.text) > 4096
    /\ outbox # <<>>
    /\ Len(outbox[Len(outbox)].text) = 4096

-----------------------------------------------------------------------------
(* C4 *)

\* C4: users holds at most one profile per chat_id; once the /start or the
\* contact handler of a chat has ended there is exactly one, and after
\* /start its first_name and username are those of that /start.
C4_OneProfilePerChat ==
    /\ \A c \in Chats : Cardinality(Matching(users, c)) <= 1
    /\ (HandlerEnded /\ Route(run.ev) \in {"start", "handle_contact"})
          => Cardinality(Matching(users, run.ev.chat_id)) = 1
    /\ (HandlerEnded /\ Route(run.ev) = "start")
          => \A i \in Matching(users, run.ev.chat_id) :
                /\ users[i].first_name = run.ev.user.first_name
                /\ users[i].username = run.ev.user.username

\* Chat 123 issued /start as Ann and then as Bob: one profile, Bob's.
C4_Witness ==
    /\ HandlerEnded
    /\ Route(run.ev) = "start"
    /\ run.ev.chat_id = 123
    /\ run.ev.user.first_name = "Bob"
    /\ Len(outbox) = 2
    /\ \A i \in 1..2 : outbox[i].keyboard /\ outbox[i].chat_id = 123
    /\ Len(users) = 1
    /\ users[1].first_name = "Bob"
    /\ users[1].username = None

-----------------------------------------------------------------------------
(* C5 *)

\* C5: when download_as_bytearray fails in handle_photo or handle_document
\* (and no other call fails), no record is written, the handler returns
\* normally and the user got an error reply.
C5_DownloadFailureCaught ==
    (/\ HandlerEnded
     /\ run.ev.kind \in {"photo", "document"}
     /\ run.faults = {"download"})
        => /\ run.records = <<>>
           /\ run.result = "returned"
           /\ run.sent # <<>>

-----------------------------------------------------------------------------
(* C6 *)

\* The text of the pages that did not fail, in page order
RECURSIVE TextOfReadablePages(_)
TextOfReadablePages(pages) ==
    IF pages = <<>> THEN ""
    ELSE (IF Head(pages) \in {"<raise>", None} THEN "" ELSE Head(pages))
            \o TextOfReadablePages(Tail(pages))

\* C6: for a document that opens, extract_text_from_pdf returns the text of
\* the pages whose extraction did not fail, in page order (so the pages
\* after a failing page are included), and the result is empty only if no
\* page has text.
C6_SkipsOnlyFailingPage ==
    (pc = "extracted" /\ local.file_bytes.opens)
        => local.text = TextOfReadablePages(local.file_bytes.pages)

-----------------------------------------------------------------------------
(* C7 *)

\* C7: when the inference call returns no response or a response whose text
\* is empty, the stored text and the reply are the fallback string of the
\* path; an empty string is never stored or passed to reply_text.
C7_EmptyIsAbsent ==
    /\ \A i \in 1..Len(run.records) : StoredText(run.records[i]) # ""
    /\ \A i \in 1..Len(run.sent) : run.sent[i] # ""
    /\ (/\ run.ev.kind \in RecordingKinds
        /\ run.records # <<>>
        /\ \/ local.response.kind = "none"
           \/ local.response.kind = "response" /\ local.response.text = "")
          => /\ StoredText(run.records[1]) = PathFallback(run.ev)
             /\ run.sent # <<>> => run.sent[1] = PathFallback(run.ev)

-----------------------------------------------------------------------------
(* C8 *)

\* C8 as stated: the text stored in the record of a text, photo or document
\* update equals the text passed to reply_text for it.
C8_StoredEqualsReply ==
    (run.ev.kind \in RecordingKinds /\ run.records # <<>> /\ run.sent # <<>>)
        => StoredText(run.records[1]) = run.sent[1]

\* C8 as amended: the record stores the inference output in full (or the
\* fallback), the reply is the first 4096 characters of the stored text, and
\* the two are equal exactly when the stored text has at most 4096
\* characters.
C8_ReplyIsPrefixOfStored ==
    (run.ev.kind \in RecordingKinds /\ run.records # <<>>)
        => LET stored == StoredText(run.records[1])
           IN /\ local.response.kind = "response" => stored = local.response.text
              /\ local.response.kind = "none" => stored = PathFallback(run.ev)
              /\ run.sent # <<>>
                    => /\ IsPrefix(run.sent[1], stored)
                       /\ Len(run.sent[1]) = (IF Len(stored) <= 4096 THEN Len(stored) ELSE 4096)
                       /\ (run.sent[1] = stored) <=> (Len(stored) <= 4096)

\* A record holds an inference output of more than 4096 characters and the
\* reply sent for it has 4096.
C8_Witness ==
    /\ run.ev.kind \in RecordingKinds
    /\ run.records # <<>>
    /\ run.sent # <<>>
    /\ Len(StoredText(run.records[1])) > 4096
    /\ Len(run.sent[1]) = 4096
    /\ chat_history # <<>>
    /\ chat_history[Len(chat_history)].bot_response = LongText

-----------------------------------------------------------------------------
(* C9 *)

-----------------------------------------------------------------------------
(* C10 *)

\* C10: in a PDF document update whose content was downloaded and either
\* failed to open or gave an empty text, no inference call is made, the one
\* record stores the "no readable text" fallback, and that fallback is the
\* one text passed to reply_text and the message delivered when the handler
\* returns.
C10_UnreadablePdf ==
    (/\ run.ev.kind = "document"
     /\ run.fetched = 1
     /\ "download" \notin run.faults
     /\ (~local.file_bytes.opens \/ local.text = ""))
        => /\ run.prompts = <<>>
           /\ Len(run.records) = 1
           /\ run.records[1].coll = "document_analysis"
           /\ run.records[1].doc.description = NoTextFallback
           /\ document_analysis[Len(document_analysis)] = run.records[1].doc
           /\ HandlerEnded => run.sent = <<NoTextFallback>>
           /\ (HandlerEnded /\ run.result = "returned") => LastDelivered(NoTextFallback)

\* The handler of a PDF that PdfReader could not open returned after its
\* reply.
C10_Witness ==
    /\ HandlerEnded
    /\ run.result = "returned"
    /\ run.ev.kind = "document"
    /\ run.fetched = 1
    /\ ~local.file_bytes.opens
    /\ LastDelivered(NoTextFallback)

-----------------------------------------------------------------------------
(* C11 *)

\* The arguments with one space between neighbours, built from the right
RECURSIVE SpaceSeparated(_)
SpaceSeparated(args) ==
    IF Len(args) = 1 THEN args[1]
    ELSE SpaceSeparated(SubSeq(args, 1, Len(args) - 1)) \o " " \o args[Len(args)]

Contains(text, part) ==
    \E i \in 1..(Len(text) - Len(part) + 1) : SubSeq(text, i, i + Len(part) - 1) = part

C11_WitnessUsage ==
    /\ HandlerEnded
    /\ Route(run.ev) = "web_search"
    /\ run.ev.args = <<>>
    /\ LastDelivered(UsageMessage)

-----------------------------------------------------------------------------
(* C12 *)

\* The positions of each handler
HandlerPositions ==
    [start |-> {"start"},
     handle_contact |-> {"handle_contact"},
     handle_message |-> {"handle_message", "hm_generate", "hm_reply"},
     handle_photo |-> {"handle_photo", "hp_typing", "hp_download", "hp_generate",
                       "hp_reply", "hp_except"},
     handle_document |-> {"handle_document", "hd_typing", "hd_download", "hd_generate",
                          "hd_reply"},
     web_search |-> {"web_search", "ws_generate", "ws_reply"}]

\* The handler the declared kind of an update calls for
HandlerOfKind(ev) ==
    CASE ev.kind = "command" /\ ev.name = "start" -> "start"
      [] ev.kind = "command" /\ ev.name = "websearch" -> "web_search"
      [] ev.kind = "contact" -> "handle_contact"
      [] ev.kind = "text" -> "handle_message"
      [] ev.kind = "photo" -> "handle_photo"
      [] ev.kind = "document" -> "handle_document"
      [] OTHER -> "none"

\* C12: at most one registered handler accepts an update; a running handler
\* is the one its update's declared kind calls for; a command other than
\* start and websearch starts no handler and has no reply, no inference call
\* and no record.
C12_RoutedByKind ==
    /\ run.ev.kind # "none"
          => Cardinality({i \in 1..Len(Registrations) :
                            Accepts(Registrations[i].filter, run.ev)}) <= 1
    /\ pc # "idle"
          => /\ HandlerOfKind(run.ev) # "none"
             /\ pc \in HandlerPositions[HandlerOfKind(run.ev)]
    /\ (run.ev.kind # "none" /\ HandlerOfKind(run.ev) = "none")
          => /\ pc = "idle"
             /\ run.result = "ignored"
             /\ run.typing = 0
             /\ run.prompts = <<>>
             /\ run.records = <<>>
             /\ run.sent = <<>>
    /\ (run.ev.kind # "none" /\ HandlerOfKind(run.ev) # "none")
          => run.result # "ignored"

\* /help arrived after an update that was answered: nothing was done for it.
C12_Witness ==
    /\ run.ev.kind = "command"
    /\ run.ev.name = "help"
    /\ now = 2
    /\ Len(outbox) = 1
    /\ pc = "idle"

-----------------------------------------------------------------------------
(* C13 *)

\* Some step of the running handler
HandlerStep == pc # "idle" /\ Next

\* C13: the dispatch loop never stops.  Between updates (in particular after
\* an update whose handling hit a failure) every update can be dispatched
\* while updates remain, and it is dispatched to its handler; a handler that
\* was started can always take its next step, up to its end.
C13_LoopGoesOn ==
    /\ pc \in {"idle"} \cup UNION {HandlerPositions[h] : h \in DOMAIN HandlerPositions}
    /\ (pc = "idle" /\ now < MaxEvents)
          => \A ev \in Updates :
                ENABLED (Deliver(ev) /\ pc' = (IF HandlerOfKind(ev) = "none" THEN "idle"
                                               ELSE HandlerOfKind(ev)))
    /\ pc # "idle" => ENABLED HandlerStep
    /\ run.faults # {} => (pc = "hp_except" \/ HandlerEnded)

\* A text update was handled and answered after a photo update whose
\* handling failed (the error reply is the first message).
C13_Witness ==
    /\ HandlerEnded
    /\ now = 2
    /\ run.ev.kind = "text"
    /\ run.result = "returned"
    /\ Len(chat_history) = 1
    /\ Len(outbox) = 2
    /\ outbox[1].text = ImageError

-----------------------------------------------------------------------------
(* C14 *)

\* C14: the typing indicator comes before any inference call or download of
\* the handler, and a failure of it is ignored: a text update whose typing
\* indicator failed still has its inference call, its record and its reply.
C14_TypingBestEffort ==
    /\ run.typing = 0 => (run.prompts = <<>> /\ run.fetched = 0)
    /\ (HandlerEnded /\ run.ev.kind = "text" /\ run.faults = {"typing"})
          => /\ run.prompts = <<run.ev.text>>
             /\ Len(run.records) = 1
             /\ Len(run.sent) = 1

-----------------------------------------------------------------------------
(* C15 *)

-----------------------------------------------------------------------------
(* C16 *)

\* The positions at which a handler awaits an inference call or a download
InFlightPositions ==
    {"hm_generate", "hp_download", "hp_generate", "hd_download", "hd_generate", "ws_generate"}

\* C16: while an inference call or a download of one chat is in flight and
\* updates remain, an update of a different chat can be dispatched.
C16_OtherChatDispatched ==
    (pc \in InFlightPositions /\ now < MaxEvents)
        => \E ev \in Updates : ev.chat_id # run.ev.chat_id /\ ENABLED Deliver(ev)

-----------------------------------------------------------------------------
(* C17 *)

\* The records the handlers of all updates so far have inserted
RecordCount == Len(chat_history) + Len(image_analysis) + Len(document_analysis)

\* The positions after the inference/extraction attempt of a handler
AfterAttemptPositions == {"hm_reply", "hp_reply", "hp_except", "hd_reply", "idle"}

\* C17: an update has a record only after its inference/extraction attempt:
\* the handler is past that attempt, and the inference call was made and
\* has returned (text, photo, a PDF with text), or the extraction gave no
\* text, or the file is no PDF.  A collection grows only in the step that
\* ends the attempt.
C17_RecordAfterAttempt ==
    /\ [](run.records # <<>>
            => /\ pc \in AfterAttemptPositions
               /\ Len(run.records) = 1
               /\ run.ev.kind \in RecordingKinds
               /\ \/ Len(run.prompts) = 1 /\ local.response.kind \in {"none", "response"}
                  \/ /\ run.ev.kind = "document"
                     /\ run.prompts = <<>>
                     /\ \/ ~HasPdfExtension(run.ev.file_name)
                        \/ run.fetched = 1 /\ local.text = "")
    /\ [][RecordCount' # RecordCount
            => /\ RecordCount' = RecordCount + 1
               /\ Len(run'.records) = Len(run.records) + 1
               /\ pc \in InFlightPositions \cup {"hd_typing"}
               /\ pc' \in AfterAttemptPositions]_vars

\* The summary of a PDF is stored, its reply not yet sent.
C17_Witness ==
    /\ pc = "hd_reply"
    /\ run.prompts = <<"a">>
    /\ local.response.kind = "response"
    /\ Len(run.records) = 1
    /\ document_analysis # <<>>
    /\ document_analysis[Len(document_analysis)].description = local.response.text

-----------------------------------------------------------------------------
(* The same update handled again: the handlers after different histories *)

\* The transport delivers the update of the handler that just ended once
\* more (any update at first); what that handler did is kept for comparison.
DeliverAgain(ev) ==
    /\ pc = "idle"
    /\ now < MaxEvents
    /\ run.ev.kind # "none" => ev = run.ev
    /\ now' = now + 1
    /\ run' = NewRun(ev)
    /\ pc' = Route(ev)
    /\ local' = NoLocals
    /\ prev' = [run |-> run, local |-> local]
    /\ UNCHANGED <<store, outbox>>

NextRepeat ==
    \/ \E ev \in Updates : DeliverAgain(ev)
    \/ Handle

SpecRepeat == Init /\ [][NextRepeat]_vars

-----------------------------------------------------------------------------
(* C18 *)

\* A record without its timestamp
StripTime(rec) ==
    [coll |-> rec.coll, doc |-> [f \in DOMAIN rec.doc \ {"timestamp"} |-> rec.doc[f]]]

\* The awaited calls of the two handlings had the same outcomes: the same
\* calls raised, the inference call gave the same response, the download
\* gave the same bytes, and the handler ended the same way.
SameOutcomes ==
    /\ run.faults = prev.run.faults
    /\ run.result = prev.run.result
    /\ local.response = prev.local.response
    /\ local.file_bytes = prev.local.file_bytes

-----------------------------------------------------------------------------
(* C19 *)

\* C19: no step removes or reorders profiles; a step leaves the profiles of
\* chats other than the current update's as they are; handle_contact leaves
\* first_name and username of the chat's profile as they are and start
\* leaves its phone_number as it is; no other handler changes users.
C19_UpsertMerges ==
    [][/\ Len(users') >= Len(users)
       /\ \A i \in 1..Len(users) :
            /\ users'[i].chat_id = users[i].chat_id
            /\ users[i].chat_id # run.ev.chat_id => users'[i] = users[i]
            /\ pc = "handle_contact"
                 => /\ users'[i].first_name = users[i].first_name
                    /\ users'[i].username = users[i].username
            /\ pc = "start" => users'[i].phone_number = users[i].phone_number
       /\ pc \notin {"start", "handle_contact"} => users' = users]_vars

\* Chat 123 shared its contact after /start: the profile has the name, the
\* handle and the phone number.
C19_Witness ==
    /\ HandlerEnded
    /\ run.ev.kind = "contact"
    /\ run.ev.chat_id = 123
    /\ Len(users) = 1
    /\ users[1].first_name = "Ann"
    /\ users[1].username = "ann"
    /\ users[1].phone_number = run.ev.phone_number

\* Chat 123 issued /start after sharing its contact: the phone number is
\* still in the profile.
C19_WitnessStartAfterContact ==
    /\ HandlerEnded
    /\ Route(run.ev) = "start"
    /\ Len(users) = 1
    /\ users[1].first_name = run.ev.user.first_name
    /\ users[1].phone_number \in Phones

-----------------------------------------------------------------------------
(* C20 *)

\* The collection of the records of an update's kind
CollectionOf(ev) ==
    CASE ev.kind = "text" -> chat_history
      [] ev.kind = "photo" -> image_analysis
      [] ev.kind = "document" -> document_analysis

\* The record of the current update is the last one of its collection.
RecordStored ==
    /\ Len(run.records) = 1
    /\ CollectionOf(run.ev) # <<>>
    /\ CollectionOf(run.ev)[Len(CollectionOf(run.ev))] = run.records[1].doc
    /\ run.records[1].doc.timestamp = now
    /\ run.records[1].doc.chat_id = run.ev.chat_id

\* C20: in the text, photo and document handlers the record is stored when
\* the result reply is awaited and from then on, whether the reply was sent
\* or failed; the result reply is the stored text cut to 4096 characters;
\* in handle_photo a failed result reply leads to the error reply although
\* the record is stored, and nowhere else.
C20_RecordBeforeReply ==
    run.ev.kind \in RecordingKinds
        => /\ pc \in {"hm_reply", "hp_reply", "hd_reply"}
                => (RecordStored /\ run.sent = <<>>)
           /\ (run.sent # <<>> /\ local.analysis # None)
                => /\ RecordStored
                   /\ IsPrefix(run.sent[1], StoredText(run.records[1]))
           /\ (local.analysis # None /\ "reply" \in run.faults) => RecordStored
           /\ (run.ev.kind = "photo" /\ local.analysis # None /\ "reply" \in run.faults)
                => /\ pc = "hp_except" \/ HandlerEnded
                   /\ HandlerEnded => (Len(run.sent) = 2 /\ run.sent[2] = ImageError)
           /\ (run.ev.kind # "photo" /\ "reply" \in run.faults)
                => (HandlerEnded /\ run.result = "raised" /\ Len(run.sent) = 1)

\* The analysis of a photo is stored, its reply failed, and the error reply
\* was delivered.
C20_Witness ==
    /\ HandlerEnded
    /\ run.ev.kind = "photo"
    /\ run.result = "returned"
    /\ run.faults = {"reply"}
    /\ run.sent = <<ShortText, ImageError>>
    /\ Len(image_analysis) = 1
    /\ image_analysis[1].description = ShortText
    /\ LastDelivered(ImageError)

====
